---- MODULE Spec2Model ----
(***************************************************************************)
(* Model of app/core/vector_store.py: the process-wide cached Qdrant       *)
(* client, VectorStoreService and the Qdrant store it talks to.            *)
(*                                                                         *)
(* Every request to the store is given a fault input: "none" (the store    *)
(* answers), "http" (the store answers with a non-2xx status other than    *)
(* 404, which qdrant_client raises as UnexpectedResponse, e.g. 401 or 500) *)
(* and "net" (no answer: a transport error, raised as an exception that is *)
(* not an UnexpectedResponse).  A lookup of an absent collection answered  *)
(* by the store is the 404 UnexpectedResponse.  A request that fails      *)
(* leaves the store as it was.                                             *)
(***************************************************************************)
EXTENDS Integers, Sequences, FiniteSets, TLC

\* ---------------------------------------------------------------- bounds
MaxUuid == 2          \* identifiers uuid4() hands out in one behaviour
MaxDocs == 2          \* longest document list given to add_documents
NThreads == 2         \* threads calling get_qdrant_client
MaxCalls == 3         \* calls of get_qdrant_client per thread

\* ---------------------------------------------------------------- values
Names == {"documents", "archive"}
DefaultName == "documents"
DocPool == <<"a", "b", "c", "d">>
Faults == {"none", "http", "net"}
Threads == 1..NThreads
KnownModels == {"text-embedding-3-small", "text-embedding-3-large", "text-embedding-ada-002"}
Models == KnownModels \cup {"custom-model"}
NoClient == [id |-> 0, api_key |-> ""]
NoService == [collection_name |-> "", client |-> NoClient, vector_name |-> ""]

\* EMBEDDING_DIMENSIONS.get(model): 0 stands for None
EMBEDDING_DIMENSIONS(model) ==
    CASE model = "text-embedding-3-small" -> 1536
      [] model = "text-embedding-3-large" -> 3072
      [] model = "text-embedding-ada-002" -> 1536
      [] OTHER -> 0

\* variant: the lookup without the default for unknown models
get_embedding_dimension_nodefault(model) == EMBEDDING_DIMENSIONS(model)

get_embedding_dimension(model) ==
    LET dimension == EMBEDDING_DIMENSIONS(model)
    IN  IF dimension = 0 THEN 1536 ELSE dimension

\* length of the vectors the embedding provider returns for the model; a
\* model the table does not know is taken to return 3072
ProviderDimension(model) ==
    IF model \in KnownModels THEN EMBEDDING_DIMENSIONS(model) ELSE 3072

\* ------------------------------------------------------- the store's data
NoCollection ==
    [exists |-> FALSE, size |-> 0, distance |-> "", named |-> FALSE,
     keys |-> <<>>, points |-> {}, indexed |-> 0, status |-> ""]

Collection(size, distance, named, keys, points, indexed, status) ==
    [exists |-> TRUE, size |-> size, distance |-> distance, named |-> named,
     keys |-> keys, points |-> points, indexed |-> indexed, status |-> status]

\* what create_collection(vectors_config=VectorParams(size, distance)) makes
NewCollection(size, distance) ==
    Collection(size, distance, FALSE, <<>>, {}, 0, "green")

\* collections the store may hold before the process starts
InitialDefault ==
    { NoCollection,
      Collection(3072, "Cosine", FALSE, <<>>, {<<0, "a">>}, 0, "green"),
      Collection(1536, "Dot", TRUE, <<"text", "image">>, {}, 0, "yellow"),
      Collection(1536, "Cosine", TRUE, <<>>, {}, 0, "green") }

InitialArchive == { NoCollection }

VARIABLES
    settings,      \* app.config settings read by the module
    store,         \* the Qdrant server: collection name -> collection
    clientCache,   \* lru_cache of get_qdrant_client: NoClient or the client
    clientsMade,   \* QdrantClient objects constructed so far
    service,       \* the VectorStoreService the application holds: the last one
                   \* constructed, NoService before that
    nextUuid,      \* identifiers handed out by uuid4 so far
    ensured,       \* names created on demand by a completed construction,
                   \* with no delete_collection call on the name since
    last,          \* the last completed call: its inputs, requests, outcome
    tpc,           \* per thread: position inside get_qdrant_client
    tval,          \* per thread: the client its running call constructed
    returned       \* per thread: what its completed calls returned

vars == <<settings, store, clientCache, clientsMade, service, nextUuid,
          ensured, last, tpc, tval, returned>>

storeVars == <<settings, store, service, nextUuid, ensured, last>>
threadVars == <<tpc, tval, returned>>

\* ------------------------------------------------------ the client's calls
\* client.get_collection(name)
get_collection(st, name, fault) ==
    IF fault = "net" THEN [kind |-> "ResponseHandlingException", status |-> 0, info |-> NoCollection]
    ELSE IF fault = "http" THEN [kind |-> "UnexpectedResponse", status |-> 500, info |-> NoCollection]
    ELSE IF ~st[name].exists THEN [kind |-> "UnexpectedResponse", status |-> 404, info |-> NoCollection]
    ELSE [kind |-> "ok", status |-> 200, info |-> st[name]]

\* client.create_collection(name, VectorParams(size, distance)): the store
\* refuses to create a collection that exists (409)
create_collection(st, name, size, distance, fault) ==
    IF fault = "net" THEN [kind |-> "ResponseHandlingException", status |-> 0, store |-> st]
    ELSE IF fault = "http" THEN [kind |-> "UnexpectedResponse", status |-> 500, store |-> st]
    ELSE IF st[name].exists THEN [kind |-> "UnexpectedResponse", status |-> 409, store |-> st]
    ELSE [kind |-> "ok", status |-> 200,
          store |-> [st EXCEPT ![name] = NewCollection(size, distance)]]

\* client.delete_collection(name): deleting an absent collection is no error
client_delete_collection(st, name, fault) ==
    IF fault = "net" THEN [kind |-> "ResponseHandlingException", status |-> 0, store |-> st]
    ELSE IF fault = "http" THEN [kind |-> "UnexpectedResponse", status |-> 500, store |-> st]
    ELSE [kind |-> "ok", status |-> 200, store |-> [st EXCEPT ![name] = NoCollection]]

\* client.get_collections()
get_collections(fault) ==
    IF fault = "none" THEN [kind |-> "ok", status |-> 200]
    ELSE IF fault = "http" THEN [kind |-> "UnexpectedResponse", status |-> 500]
    ELSE [kind |-> "ResponseHandlingException", status |-> 0]

Call(req, res) == [req |-> req, kind |-> res.kind, status |-> res.status]

\* --------------------------------------------------------- get_qdrant_client
\* the lru_cache wrapper's lookup: the cached value, NoClient on a miss
cache_lookup(cache) == cache

\* variant: a wrapper that never stores the result
cache_store_never(cache, value) == cache

\* the lru_cache wrapper after the wrapped call: the result is stored unless
\* the key was added while the wrapped function ran
cache_store(cache, value) == IF cache = NoClient THEN value ELSE cache

\* QdrantClient(**client_kwargs): api_key is passed only when it is set
QdrantClient(n, cfg) == [id |-> n, api_key |-> cfg.qdrant_api_key]

\* -------------------------------------------------------- VectorStoreService
ensure_collection(st, name, model, f1, fc) ==
    LET r == get_collection(st, name, f1)
    IN  IF r.kind = "ok"
        THEN [store |-> st, raised |-> "none", calls |-> <<Call("get_collection", r)>>]
        ELSE IF r.kind = "UnexpectedResponse"
        THEN LET c == create_collection(st, name, get_embedding_dimension(model),
                                        "Cosine", fc)
             IN  [store |-> c.store,
                  raised |-> IF c.kind = "ok" THEN "none" ELSE c.kind,
                  calls |-> <<Call("get_collection", r), Call("create_collection", c)>>]
        ELSE [store |-> st, raised |-> r.kind, calls |-> <<Call("get_collection", r)>>]

\* variant: only UnexpectedResponse is caught
get_vector_name_narrow(st, name, fault) ==
    LET r == get_collection(st, name, fault)
    IN  [ret |-> IF r.kind = "ok" /\ r.info.named /\ Len(r.info.keys) > 0
                 THEN r.info.keys[1] ELSE "",
         raised |-> IF r.kind \in {"ok", "UnexpectedResponse"} THEN "none" ELSE r.kind,
         calls |-> <<Call("get_collection", r)>>]

get_vector_name(st, name, fault) ==
    LET r == get_collection(st, name, fault)
    IN  [ret |-> IF r.kind = "ok" /\ r.info.named /\ Len(r.info.keys) > 0
                 THEN r.info.keys[1] ELSE "",
         raised |-> "none",
         calls |-> <<Call("get_collection", r)>>]

\* variant: one identifier generated and used for every document
fresh_ids_reused(n, uuid) == [i \in 1..n |-> uuid + 1]

\* [str(uuid4()) for _ in documents]: uuid4 never repeats an identifier
fresh_ids(n, uuid) == [i \in 1..n |-> uuid + i]

Range(seq) == {seq[i] : i \in DOMAIN seq}

\* the store takes points only into a collection that exists, has the vector
\* field the QdrantVectorStore was built with, and has the vectors' size
Accepts(c, vector_name, dim) ==
    /\ c.exists
    /\ IF c.named THEN vector_name \in Range(c.keys) ELSE vector_name = ""
    /\ c.size = dim

\* vector_store.add_documents(documents, ids=ids)
vector_store_add_documents(st, svc, dim, docs, ids, fault) ==
    LET name == svc.collection_name
        pts == {<<ids[i], docs[i]>> : i \in DOMAIN docs}
        done == [st EXCEPT ![name].points = @ \cup pts]
        ok == Accepts(st[name], svc.vector_name, dim)
    IN  IF fault = "http" THEN [kind |-> "UnexpectedResponse", status |-> 500, store |-> st]
        ELSE IF fault = "net" THEN [kind |-> "ResponseHandlingException", status |-> 0, store |-> st]
        ELSE IF ~st[name].exists THEN [kind |-> "UnexpectedResponse", status |-> 404, store |-> st]
        ELSE IF ~ok THEN [kind |-> "UnexpectedResponse", status |-> 400, store |-> st]
        ELSE [kind |-> "ok", status |-> 200, store |-> done]

add_documents_send(st, svc, dim, docs, uuid, fault) ==
    LET ids == fresh_ids(Len(docs), uuid)
        r == vector_store_add_documents(st, svc, dim, docs, ids, fault)
    IN  [store |-> r.store,
         ret |-> IF r.kind = "ok" THEN ids ELSE <<>>,
         raised |-> IF r.kind = "ok" THEN "none" ELSE r.kind,
         calls |-> <<Call("add_documents", r)>>,
         sent |-> [i \in DOMAIN docs |-> <<ids[i], docs[i]>>],
         uuid |-> uuid + Len(docs)]

\* variant: without the early return for an empty list
add_documents_unguarded(st, svc, dim, docs, uuid, fault) ==
    add_documents_send(st, svc, dim, docs, uuid, fault)

add_documents(st, svc, dim, docs, uuid, fault) ==
    IF docs = <<>>
    THEN [store |-> st, ret |-> <<>>, raised |-> "none", calls |-> <<>>,
          sent |-> <<>>, uuid |-> uuid]
    ELSE add_documents_send(st, svc, dim, docs, uuid, fault)

delete_collection(st, name, fault) ==
    LET r == client_delete_collection(st, name, fault)
    IN  [store |-> r.store,
         raised |-> IF r.kind = "ok" THEN "none" ELSE r.kind,
         calls |-> <<Call("delete_collection", r)>>]

NotFoundInfo(name) ==
    [name |-> name, points_count |-> 0, indexed_vectors_count |-> 0, status |-> "not_found"]

get_collection_info(st, name, fault) ==
    LET r == get_collection(st, name, fault)
    IN  [ret |-> IF r.kind = "ok"
                 THEN [name |-> name,
                       points_count |-> Cardinality(r.info.points),
                       indexed_vectors_count |-> r.info.indexed,
                       status |-> r.info.status]
                 ELSE NotFoundInfo(name),
         raised |-> IF r.kind \in {"ok", "UnexpectedResponse"} THEN "none" ELSE r.kind,
         calls |-> <<Call("get_collection", r)>>]

\* variant: only UnexpectedResponse is caught
health_check_narrow(fault) ==
    LET r == get_collections(fault)
    IN  [ret |-> r.kind = "ok",
         raised |-> IF r.kind \in {"ok", "UnexpectedResponse"} THEN "none" ELSE r.kind,
         calls |-> <<Call("get_collections", r)>>]

health_check(fault) ==
    LET r == get_collections(fault)
    IN  [ret |-> r.kind = "ok", raised |-> "none",
         calls |-> <<Call("get_collections", r)>>]

\* ------------------------------------------------------------ initial state
Settings ==
    { [embedding_model |-> m, provider_dim |-> d, collection_name |-> DefaultName,
       qdrant_api_key |-> k] :
        m \in Models, d \in {1536, 3072}, k \in {"", "secret"} }

ThreadsIdle ==
    /\ tpc = [t \in Threads |-> "idle"]
    /\ tval = [t \in Threads |-> NoClient]
    /\ returned = [t \in Threads |-> <<>>]

Done(op, name, pre, ret, raised, calls, docs, sent) ==
    [op |-> op, name |-> name, pre |-> pre, ret |-> ret, raised |-> raised,
     calls |-> calls, docs |-> docs, sent |-> sent]

Init ==
    /\ settings \in {s \in Settings :
            /\ s.qdrant_api_key = ""
            /\ s.provider_dim = ProviderDimension(s.embedding_model)}
    /\ \E d \in InitialDefault, a \in InitialArchive :
            store = [n \in Names |-> IF n = DefaultName THEN d ELSE a]
    /\ clientCache = NoClient
    /\ clientsMade = 0
    /\ service = NoService
    /\ nextUuid = 0
    /\ ensured = {}
    /\ last = Done("init", "", NoCollection, FALSE, "none", <<>>, <<>>, <<>>)
    /\ ThreadsIdle

\* ------------------------------------------------------------------ actions
\* VectorStoreService(collection_name): nameArg "" stands for None
Construct(nameArg, f1, fc, f2, vsOk) ==
    LET name == IF nameArg = "" THEN settings.collection_name ELSE nameArg
        hit == cache_lookup(clientCache)
        client == IF hit = NoClient THEN QdrantClient(clientsMade + 1, settings) ELSE hit
        e == ensure_collection(store, name, settings.embedding_model, f1, fc)
        v == get_vector_name(e.store, name, f2)
        svc == [collection_name |-> name, client |-> client, vector_name |-> v.ret]
        raised == IF e.raised # "none" THEN e.raised
                  ELSE IF v.raised # "none" THEN v.raised
                  ELSE IF ~vsOk THEN "QdrantVectorStoreError" ELSE "none"
        calls == IF e.raised # "none" THEN e.calls ELSE e.calls \o v.calls
    IN  \* inputs of requests that are not made are not enumerated
        /\ Len(e.calls) = 1 => fc = "none"
        /\ e.raised # "none" => f2 = "none" /\ vsOk
        /\ clientCache' = IF hit = NoClient THEN cache_store(clientCache, client) ELSE clientCache
        /\ clientsMade' = IF hit = NoClient THEN clientsMade + 1 ELSE clientsMade
        /\ store' = e.store
        /\ service' = IF raised = "none" THEN svc ELSE service
        /\ ensured' = IF raised = "none" /\ ~store[name].exists
                      THEN ensured \cup {name} ELSE ensured
        /\ last' = Done("construct", name, store[name],
                        IF raised = "none" THEN svc ELSE NoService,
                        raised, calls, <<>>, <<>>)
        /\ UNCHANGED <<settings, nextUuid, threadVars>>

AddDocuments(docs, fault) ==
    LET svc == service
        r == add_documents(store, svc, settings.provider_dim, docs, nextUuid, fault)
    IN  /\ service # NoService
        /\ nextUuid + Len(docs) <= MaxUuid
        /\ docs = <<>> => fault = "none"
        /\ store' = r.store
        /\ nextUuid' = r.uuid
        /\ last' = Done("add_documents", svc.collection_name, store[svc.collection_name],
                        r.ret, r.raised, r.calls, docs, r.sent)
        /\ UNCHANGED <<settings, clientCache, clientsMade, service, ensured, threadVars>>

DeleteCollection(fault) ==
    LET name == service.collection_name
        r == delete_collection(store, name, fault)
    IN  /\ service # NoService
        /\ store' = r.store
        /\ ensured' = ensured \ {name}
        /\ last' = Done("delete_collection", name, store[name], FALSE, r.raised,
                        r.calls, <<>>, <<>>)
        /\ UNCHANGED <<settings, clientCache, clientsMade, service, nextUuid, threadVars>>

GetCollectionInfo(fault) ==
    LET name == service.collection_name
        r == get_collection_info(store, name, fault)
    IN  /\ service # NoService
        /\ last' = Done("get_collection_info", name, store[name], r.ret, r.raised,
                        r.calls, <<>>, <<>>)
        /\ UNCHANGED <<settings, store, clientCache, clientsMade, service, nextUuid,
                       ensured, threadVars>>

HealthCheck(fault) ==
    LET name == service.collection_name
        r == health_check(fault)
    IN  /\ service # NoService
        /\ last' = Done("health_check", name, store[name],
                        r.ret, r.raised, r.calls, <<>>, <<>>)
        /\ UNCHANGED <<settings, store, clientCache, clientsMade, service, nextUuid,
                       ensured, threadVars>>

\* the document lists given to add_documents: documents are opaque to the
\* service, a list is told from another by its length and its order
DocLists == {SubSeq(DocPool, 1, n) : n \in 0..MaxDocs}

Next ==
    \/ \E nameArg \in {"", "archive"}, f1 \in Faults, fc \in Faults,
          f2 \in Faults, vsOk \in BOOLEAN :
            Construct(nameArg, f1, fc, f2, vsOk)
    \/ \E docs \in DocLists, fault \in Faults : AddDocuments(docs, fault)
    \/ \E fault \in Faults : DeleteCollection(fault)
    \/ \E fault \in Faults : GetCollectionInfo(fault)
    \/ \E fault \in Faults : HealthCheck(fault)

Spec == Init /\ [][Next]_vars

\* ------------------------------------- threads inside get_qdrant_client
InitClient ==
    /\ settings \in {s \in Settings : s.embedding_model = "text-embedding-3-small"
                                      /\ s.provider_dim = ProviderDimension(s.embedding_model)}
    /\ store = [n \in Names |-> NoCollection]
    /\ clientCache = NoClient
    /\ clientsMade = 0
    /\ service = NoService
    /\ nextUuid = 0
    /\ ensured = {}
    /\ last = Done("init", "", NoCollection, FALSE, "none", <<>>, <<>>, <<>>)
    /\ ThreadsIdle

\* the wrapper looks the key up: a hit returns the cached client at once
CacheLookup(t) ==
    LET hit == cache_lookup(clientCache)
    IN  /\ tpc[t] = "idle"
        /\ Len(returned[t]) < MaxCalls
        /\ IF hit = NoClient
           THEN /\ tpc' = [tpc EXCEPT ![t] = "miss"]
                /\ UNCHANGED returned
           ELSE /\ returned' = [returned EXCEPT ![t] = Append(@, [client |-> hit, hit |-> TRUE])]
                /\ UNCHANGED tpc
        /\ UNCHANGED <<clientCache, clientsMade, tval, storeVars>>

\* the wrapped function runs: a client is constructed
BuildClient(t) ==
    /\ tpc[t] = "miss"
    /\ clientsMade' = clientsMade + 1
    /\ tval' = [tval EXCEPT ![t] = QdrantClient(clientsMade + 1, settings)]
    /\ tpc' = [tpc EXCEPT ![t] = "built"]
    /\ UNCHANGED <<clientCache, returned, storeVars>>

\* the wrapper stores the result and returns it
CacheStore(t) ==
    /\ tpc[t] = "built"
    /\ clientCache' = cache_store(clientCache, tval[t])
    /\ returned' = [returned EXCEPT ![t] = Append(@, [client |-> tval[t], hit |-> FALSE])]
    /\ tpc' = [tpc EXCEPT ![t] = "idle"]
    /\ tval' = [tval EXCEPT ![t] = NoClient]
    /\ UNCHANGED <<clientsMade, storeVars>>

NextClient ==
    \/ \E t \in Threads : CacheLookup(t)
    \/ \E t \in Threads : BuildClient(t)
    \/ \E t \in Threads : CacheStore(t)

SpecClient == InitClient /\ [][NextClient]_vars

\* ================================================================== claims
Requests == {last.calls[i].req : i \in DOMAIN last.calls}
SentIds == [i \in DOMAIN last.sent |-> last.sent[i][1]]
StoredIds(c) == {p[1] : p \in c.points}

\* C1: in _ensure_collection the collection is created only when the lookup
\* fails with "not found" (404); every other failure of the lookup is
\* propagated and create_collection is not called.
C1_CreateOnlyWhenNotFound ==
    last.op = "construct" =>
        /\ "create_collection" \in Requests => last.calls[1].status = 404
        /\ last.calls[1].kind # "ok" /\ last.calls[1].status # 404
              => last.raised = last.calls[1].kind /\ Len(last.calls) = 1

\* C2: once a construction has created a missing collection and completed,
\* every later get_collection_info() on that name returns a status other
\* than "not_found", as long as delete_collection is not called for the name.
C2_EnsuredNeverNotFound ==
    last.op = "get_collection_info" /\ last.name \in ensured /\ last.raised = "none"
        => last.ret.status # "not_found"

\* C3: constructing a service for a collection that already exists leaves the
\* collection as it was and issues no create, update or delete request.
C3_ExistingUntouched ==
    last.op = "construct" /\ last.pre.exists =>
        /\ store[last.name] = last.pre
        /\ Requests \subseteq {"get_collection"}

\* C4 (as stated): one QdrantClient is constructed per process and every call
\* of get_qdrant_client returns it, also when first calls overlap in threads.
C4_SingleClient ==
    /\ clientsMade <= 1
    /\ \A t, u \in Threads : \A i \in DOMAIN returned[t], j \in DOMAIN returned[u] :
            returned[t][i].client = returned[u][j].client

\* C4 (amended): a call that finds the cache filled returns the cached client,
\* the cached client is one a completed call constructed, and a thread
\* constructs at most one client: only calls that overlap the first
\* construction can construct, and return, a client of their own.
C4_CachedAfterFirstReturn ==
    /\ \A t \in Threads : \A i \in DOMAIN returned[t] :
            returned[t][i].hit => returned[t][i].client = clientCache
    /\ clientCache # NoClient =>
            \E t \in Threads : \E i \in DOMAIN returned[t] :
                ~returned[t][i].hit /\ returned[t][i].client = clientCache
    /\ clientsMade <= Cardinality(Threads)
    /\ \A t \in Threads :
            Cardinality({i \in DOMAIN returned[t] : ~returned[t][i].hit}) <= 1

C4_Witness ==
    /\ clientsMade = 2
    /\ \E t \in Threads : \E i \in DOMAIN returned[t] :
            returned[t][i].hit /\ returned[t][i].client = clientCache
    /\ \E t \in Threads : \E i \in DOMAIN returned[t] :
            ~returned[t][i].hit /\ returned[t][i].client # clientCache

\* C5: get_collection_info() on a collection that does not exist returns the
\* zeroed "not_found" record and does not raise; on an existing collection it
\* returns the store's points_count, indexed_vectors_count and status.
\* (A lookup the store never answered says nothing of the collection: the
\* statement is about the lookups that reached the store.)
C5_InfoReportsStore ==
    last.op = "get_collection_info" /\ last.calls[1].kind # "ResponseHandlingException" =>
        /\ last.raised = "none"
        /\ last.ret = IF last.pre.exists
                      THEN [name |-> last.name,
                            points_count |-> Cardinality(last.pre.points),
                            indexed_vectors_count |-> last.pre.indexed,
                            status |-> last.pre.status]
                      ELSE NotFoundInfo(last.name)

\* C6: health_check() returns True exactly when the get_collections probe
\* completes without an exception, returns False for every exception of the
\* probe, and never raises.
C6_HealthCheckNeverRaises ==
    last.op = "health_check" =>
        /\ Len(last.calls) = 1 /\ last.calls[1].req = "get_collections"
        /\ last.raised = "none"
        /\ last.ret = (last.calls[1].kind = "ok")

C6_Witness ==
    /\ last.op = "health_check"
    /\ last.calls[1].kind = "ResponseHandlingException"
    /\ last.ret = FALSE

\* C7: for n > 0 documents add_documents generates n pairwise-distinct fresh
\* identifiers, submits the n documents in one call with the i-th identifier
\* on the i-th document, and returns those identifiers in input order; a
\* failing store call is propagated and no identifier is returned.
C7_AddReturnsFreshIds ==
    last.op = "add_documents" /\ last.docs # <<>> =>
        /\ Len(last.calls) = 1 /\ last.calls[1].req = "add_documents"
        /\ Len(last.sent) = Len(last.docs)
        /\ \A i \in DOMAIN last.docs : last.sent[i][2] = last.docs[i]
        /\ \A i, j \in DOMAIN last.sent : i # j => SentIds[i] # SentIds[j]
        /\ \A i \in DOMAIN last.sent :
                /\ SentIds[i] \notin StoredIds(last.pre)
                /\ \A n \in Names \ {last.name} : SentIds[i] \notin StoredIds(store[n])
        /\ IF last.calls[1].kind = "ok"
           THEN /\ last.raised = "none" /\ last.ret = SentIds
                /\ store[last.name].points =
                      last.pre.points \cup {last.sent[i] : i \in DOMAIN last.sent}
           ELSE last.raised = last.calls[1].kind /\ last.ret = <<>>

C7_Witness ==
    /\ last.op = "add_documents"
    /\ Len(last.docs) = 2
    /\ last.raised = "none"
    /\ last.ret = <<nextUuid - 1, nextUuid>>

\* C8: for the empty document list add_documents returns the empty list,
\* does not raise and issues no request, so the collection is unchanged.
C8_EmptyAddIsNoOp ==
    last.op = "add_documents" /\ last.docs = <<>> =>
        /\ last.ret = <<>>
        /\ last.raised = "none"
        /\ last.calls = <<>>
        /\ store[last.name] = last.pre

C8_Witness ==
    /\ last.op = "add_documents"
    /\ last.docs = <<>>
    /\ last.pre.exists
    /\ last.pre.points # {}

\* the lookup _get_vector_name makes is the last request of a construction
\* whose _ensure_collection did not raise
VectorNameLookedUp ==
    /\ last.op = "construct"
    /\ Len(last.calls) >= 2
    /\ last.calls[Len(last.calls)].req = "get_collection"

\* C9: _get_vector_name never fails its caller: it returns the first key of a
\* named vector configuration, the empty string for an unnamed one or a
\* mapping with no key, and the empty string when reading the configuration
\* fails.
C9_VectorNameNeverFails ==
    VectorNameLookedUp =>
        /\ last.raised \in {"none", "QdrantVectorStoreError"}
        /\ last.raised = "none" =>
              last.ret.vector_name =
                 IF last.calls[Len(last.calls)].kind # "ok" THEN ""
                 ELSE IF store[last.name].named /\ store[last.name].keys # <<>>
                      THEN Head(store[last.name].keys) ELSE ""

C9_Witness ==
    /\ VectorNameLookedUp
    /\ last.raised = "none"
    /\ store[last.name].keys = <<"text", "image">>
    /\ last.ret.vector_name = "text"

TableDimension(model) ==
    CASE model = "text-embedding-3-small" -> 1536
      [] model = "text-embedding-3-large" -> 3072
      [] model = "text-embedding-ada-002" -> 1536
      [] OTHER -> 1536

\* C10: get_embedding_dimension returns 1536, 3072 and 1536 for the three
\* known models and 1536 for every other model; a collection created on
\* demand has that vector size and cosine distance.
C10_DimensionOfModel ==
    /\ get_embedding_dimension(settings.embedding_model)
          = TableDimension(settings.embedding_model)
    /\ last.op = "construct" /\ "create_collection" \in Requests
          /\ last.calls[2].kind = "ok"
       => /\ store[last.name].exists
          /\ store[last.name].size = TableDimension(settings.embedding_model)
          /\ store[last.name].distance = "Cosine"

C10_Witness ==
    /\ last.op = "construct"
    /\ ~last.pre.exists
    /\ last.raised = "none"
    /\ settings.embedding_model = "custom-model"
    /\ store[last.name].size = 1536
    /\ store[last.name].distance = "Cosine"

====
